---- MODULE Spec2Model ----
(***************************************************************************)
(* Incident Orchestration Engine of DevOps Guardian.                       *)
(*                                                                         *)
(* The repository carries two revisions of the orchestrator:               *)
(*   "current"  src/unnamed/part_009             (self-healing loop)       *)
(*   "legacy"   src/apps/api/src/orchestrator.ts (single verification)     *)
(* The variable build selects the revision a deployment runs.              *)
(*                                                                         *)
(* Node runs one thread: the code between two awaits is one atomic step.   *)
(* An action below is one such step; a pc value names the await the task   *)
(* is suspended at (an executor in flight, a store call in flight).        *)
(***************************************************************************)
EXTENDS Integers, Sequences, FiniteSets, TLC

\* ---------------------------------------------------------------- bounds
MaxReq == 2
MaxFp == 2
MaxCalls == 2
MaxTimers == 2     \* setInterval calls of the watcher
MaxChecks == 4     \* checkLogs runs of the watcher

\* ------------------------------------------------------ program constants
MAX_RETRIES == 3

Ids == 1..MaxReq
Fingerprints == 1..MaxFp
RunIds == 1..MaxFp
Slots == 1..MaxCalls
Builds == {"current", "legacy"}
ErrorSources == {"ci-cd", "production", "staging"}
Kinds == {"approve", "reject", "verify_fix"}

VARIABLES
    build,            \* revision of orchestrator.ts that is deployed
    slack,            \* getSlackService(projectId) returns a service
    req,              \* POST /:projectId requests of the log-ingestion route
    db,               \* db.incident rows, by incident id
    agentRuns,        \* db.agentRun rows, by incident id: how many rows of each agent and status
    activeIncidents,  \* AgentOrchestrator.activeIncidents: status of the cached object
    wf,               \* the handleIncident task of each incident
    task,             \* handleApproval / handleRejection / handleVerificationRequest tasks
    inv,              \* executor and collaborator invocations made for each incident
    lastEmit,         \* the latest incident:update event of each incident
    executors,        \* the status field of rcaAgent, patchAgent and verificationAgent
    watcher           \* the ProductionWatcherAgent singleton and the intervals it has set

vars == <<build, slack, req, db, agentRuns, activeIncidents, wf, task, inv, lastEmit, executors,
          watcher>>

\* ------------------------------------------------------------- the store
\* The metadata column.  flat: owner/repo/projectId are top-level keys (they
\* are not after db.incident.create, whose metadata is the whole incident
\* object, with the extracted metadata one level down).  patchData: 0 when
\* absent, else the number of the Patch invocation that produced it.  token:
\* "none" when the key is absent, "REDACTED" for that placeholder, "raw" for the
\* repository access token itself.
NoMeta == [flat |-> FALSE, rcaData |-> FALSE, patchData |-> 0, awaitingApproval |-> FALSE,
           rejectedBy |-> FALSE, rejectionReason |-> FALSE, prUrl |-> FALSE, token |-> "none"]

NoRow == [exists |-> FALSE, status |-> "NONE", fingerprint |-> 0, occurrenceCount |-> 0,
          lastSeen |-> 0, meta |-> NoMeta]

\* db.incident.create of handleIncident.  lastSeen is written as the number of
\* the request whose handling set it (requests are numbered as they arrive).
NewRow(fp, seen) == [exists |-> TRUE, status |-> "OPEN", fingerprint |-> fp, occurrenceCount |-> 1,
                     lastSeen |-> seen, meta |-> NoMeta]

MergedRowNotCounted(row, seen) == [row EXCEPT !.lastSeen = seen]

\* the duplicate branch: occurrenceCount: {increment: 1}, lastSeen: new Date()
MergedRow(row, seen) == [row EXCEPT !.occurrenceCount = @ + 1, !.lastSeen = seen]

\* incident.metadata of the object a workflow works on, as a metadata column
MemoryMeta(w) == [NoMeta EXCEPT !.flat = TRUE, !.rcaData = w.rcaOk,
                                !.patchData = IF w.currentPatchData > 0 THEN 1 ELSE 0,
                                !.token = w.token]

\* requestApproval: metadata: {...incident.metadata, rcaData, patchData, awaitingApproval: true}
ApprovalRow(row, w) == [row EXCEPT !.meta = [MemoryMeta(w) EXCEPT !.awaitingApproval = TRUE]]

\* createPRAndNotify: status: "RESOLVED", metadata: {...incident.metadata, prUrl, resolvedAt}
ResolvedRow(row, meta) == [row EXCEPT !.status = "RESOLVED", !.meta = [meta EXCEPT !.prUrl = TRUE]]

RejectedRowUnannotated(row, meta) == [row EXCEPT !.status = "RESOLVED", !.meta = meta]

\* handleRejection: status: "RESOLVED", metadata: {...incident.metadata, rejectedBy, rejectionReason}
RejectedRow(row, meta) == [row EXCEPT !.status = "RESOLVED",
                               !.meta = [meta EXCEPT !.rejectedBy = TRUE, !.rejectionReason = TRUE]]

\* runWorkflow, Patch failed: data: {status: "FAILED"}
FailedRow(row) == [row EXCEPT !.status = "FAILED"]

DuplicatesOpenOnly(fp) == {i \in Ids : db[i].exists /\ db[i].fingerprint = fp /\ db[i].status = "OPEN"}

\* db.incident.findFirst({fingerprint, status: {not: "RESOLVED"}})
Duplicates(fp) == {i \in Ids : db[i].exists /\ db[i].fingerprint = fp /\ db[i].status # "RESOLVED"}

\* --------------------------------------------------------- the broadcaster
\* An event is the incident object with a statusMessage; token: the value of
\* its metadata.token.  Event is built from the object the workflow of
\* incident i works on (which is also the cached one), RowEvent from a row
\* loaded from the store.
Event(i, st, msg) == [id |-> i, status |-> st, msg |-> msg, token |-> wf[i].token]

RowEvent(i, st, msg, meta) == [id |-> i, status |-> st, msg |-> msg, token |-> meta.token]

\* the events evs, emitted once metadata.token has become token
WithToken(evs, token) == [n \in DOMAIN evs |-> [evs[n] EXCEPT !.token = token]]

LastOf(evs, dflt) == IF evs = <<>> THEN dflt ELSE evs[Len(evs)]

\* SocketService.emitIncidentUpdate applied to the events evs of incident i, in
\* order; observers keep the latest snapshot of each incident
EmitAll(i, evs) == lastEmit' = [lastEmit EXCEPT ![i] = LastOf(evs, lastEmit[i])]

\* ------------------------------------------------------------ agent runs
AgentNames == {"RCA", "Patch", "Verify", "PR"}
RunStatuses == {"WORKING", "COMPLETED", "FAILED"}
Run(name, st) == <<name, st>>
NoRuns == [x \in AgentNames \X RunStatuses |-> 0]

RECURSIVE LoggedInPlace(_, _)
LoggedInPlace(rows, runs) ==
    IF runs = <<>> THEN rows
    ELSE LET r == Head(runs)
             working == Run(r[1], "WORKING")
             written == IF r[2] # "WORKING" /\ rows[working] > 0
                        THEN [rows EXCEPT ![working] = @ - 1, ![r] = @ + 1]
                        ELSE [rows EXCEPT ![r] = @ + 1]
         IN  LoggedInPlace(written, Tail(runs))

\* db.agentRun.create for each element of runs: rows are only ever added
RECURSIVE Logged(_, _)
Logged(rows, runs) ==
    IF runs = <<>> THEN rows
    ELSE Logged([rows EXCEPT ![Head(runs)] = @ + 1], Tail(runs))

\* AgentOrchestrator.logAgentRun: db.agentRun.create refers to the incident's
\* row (relation Incident.agentRuns); without the row it throws, logAgentRun
\* catches the error, and neither a row nor an event comes of the call.
\* stored: the incident's row exists.
LoggedOf(stored, rows, runs) == IF stored THEN Logged(rows, runs) ELSE rows

LoggedFor(i, rows, runs) == LoggedOf(db[i].exists, rows, runs)

\* the event logAgentRun emits is the cached incident (current revision only;
\* the legacy revision only writes the row)
LogEventOf(stored, i, cachedStatus) ==
    IF stored /\ build = "current" /\ cachedStatus # "NONE"
    THEN <<Event(i, cachedStatus, "")>>
    ELSE <<>>

LogEvent(i, cachedStatus) == LogEventOf(db[i].exists, i, cachedStatus)

\* db.incident.update: throws when the row does not exist
Updated(row, new) == IF row.exists THEN new ELSE row

\* ---------------------------------------------------------------- executors
\* PatchAgent.execute: fails without an RCA analysis, otherwise the reasoning
\* provider decides
PatchAgentExecute(hasAnalysis, geminiOk) == hasAnalysis /\ geminiOk

\* The orchestrator holds one RCAAgent, one PatchAgent and one
\* VerificationAgent for all incidents.  execute sets this.status to WORKING
\* when it starts and to COMPLETED or FAILED when it returns; incident records
\* for which incident the field was last written.
Executors == {"RCA", "Patch", "Verify"}
NoExecutor == [status |-> "IDLE", incident |-> 0]
Wrote(i, st) == [status |-> st, incident |-> i]
Terminal(ok) == IF ok THEN "COMPLETED" ELSE "FAILED"

\* the error of the result PatchAgent.execute returns
PatchAgentError(hasAnalysis, geminiOk) ==
    IF ~hasAnalysis THEN "Missing RCA context"
    ELSE IF ~geminiOk THEN "error.message"
    ELSE "none"

\* ------------------------------------------- fingerprint of a fault message
\* A text is a sequence of characters.
Digits == {"0", "1", "2", "3", "4", "5", "6", "7", "8", "9"}
HexDigits == Digits \cup {"a", "b", "c", "d", "e", "f"}
UpperCase ==
    <<"A", "B", "C", "D", "E", "F", "G", "H", "I", "J", "K", "L", "M", "N", "O", "P", "Q",
    "R", "S", "T", "U", "V", "W", "X", "Y", "Z">>
LowerCase ==
    <<"a", "b", "c", "d", "e", "f", "g", "h", "i", "j", "k", "l", "m", "n", "o", "p", "q",
    "r", "s", "t", "u", "v", "w", "x", "y", "z">>

\* the length of the message prefix that is hashed: substring(0, 300)
PREFIX_LEN == 300

CharAt(s, i) == IF i >= 1 /\ i <= Len(s) THEN s[i] ELSE ""

ToLowerCaseIdentity(s) == s

\* String.prototype.toLowerCase
ToLowerCase(s) ==
    [i \in 1..Len(s) |->
        IF \E k \in 1..Len(UpperCase) : UpperCase[k] = s[i]
        THEN LowerCase[CHOOSE k \in 1..Len(UpperCase) : UpperCase[k] = s[i]]
        ELSE s[i]]

\* String.prototype.trim
Trim(s) ==
    LET inked == {i \in 1..Len(s) : s[i] # " "}
    IN  IF inked = {} THEN <<>>
        ELSE SubSeq(s, CHOOSE i \in inked : \A j \in inked : i <= j,
                       CHOOSE i \in inked : \A j \in inked : i >= j)

\* s matches the character classes of pattern at position i.  A pattern is a
\* sequence over "d" (\d), "h" ([0-9a-f]) and literal characters.
MatchesAt(s, i, pattern) ==
    \A k \in 1..Len(pattern) :
        LET c == CharAt(s, i + k - 1)
        IN  CASE pattern[k] = "d" -> c \in Digits
              [] pattern[k] = "h" -> c \in HexDigits
              [] OTHER -> c = pattern[k]

\* the number of digits of s from position i on
RECURSIVE DigitRun(_, _)
DigitRun(s, i) == IF CharAt(s, i) \in Digits THEN 1 + DigitRun(s, i + 1) ELSE 0

IsoPattern ==
    <<"d", "d", "d", "d", "-", "d", "d", "-", "d", "d", "t", "d", "d", ":", "d", "d", ":",
    "d", "d">>
ClockPattern ==
    <<"d", "d", ":", "d", "d", ":", "d", "d">>
UuidPattern ==
    <<"h", "h", "h", "h", "h", "h", "h", "h", "-", "h", "h", "h", "h", "-", "h", "h", "h",
    "h", "-", "h", "h", "h", "h", "-", "h", "h", "h", "h", "h", "h", "h", "h", "h", "h",
    "h", "h">>

\* the length of the match of /\d{4}-\d{2}-\d{2}t\d{2}:\d{2}:\d{2}(?:\.\d+)?z?/
\* at position i, 0 when there is none
IsoMatch(s, i) ==
    IF ~MatchesAt(s, i, IsoPattern) THEN 0
    ELSE LET base == Len(IsoPattern)
             frac == IF CharAt(s, i + base) = "." /\ DigitRun(s, i + base + 1) > 0
                     THEN 1 + DigitRun(s, i + base + 1) ELSE 0
             zulu == IF CharAt(s, i + base + frac) = "z" THEN 1 ELSE 0
         IN  base + frac + zulu

\* /\d{2}:\d{2}:\d{2}/
ClockMatch(s, i) == IF MatchesAt(s, i, ClockPattern) THEN Len(ClockPattern) ELSE 0

\* /[0-9a-f]{8}-[0-9a-f]{4}-[0-9a-f]{4}-[0-9a-f]{4}-[0-9a-f]{12}/
UuidMatch(s, i) == IF MatchesAt(s, i, UuidPattern) THEN Len(UuidPattern) ELSE 0

\* the length of the match of one of the three patterns at position i
MatchLen(s, i, pattern) ==
    CASE pattern = "iso" -> IsoMatch(s, i)
      [] pattern = "clock" -> ClockMatch(s, i)
      [] pattern = "uuid" -> UuidMatch(s, i)

\* the positions at which the matches of /pattern/g start: the leftmost match
\* from position i on, then the matches from the end of that match on
RECURSIVE MatchStarts(_, _, _)
MatchStarts(s, i, pattern) ==
    LET found == {j \in i..Len(s) : MatchLen(s, j, pattern) > 0}
    IN  IF found = {} THEN {}
        ELSE LET first == CHOOSE j \in found : \A k \in found : j <= k
             IN  {first} \cup MatchStarts(s, first + MatchLen(s, first, pattern), pattern)

\* String.prototype.replace(/pattern/g, "")
Strip(s, pattern) ==
    LET starts == MatchStarts(s, 1, pattern)
        matched == {j \in 1..Len(s) :
                      \E i \in starts : i <= j /\ j < i + MatchLen(s, i, pattern)}
        indexed == [j \in 1..Len(s) |-> <<j, s[j]>>]
        Kept(e) == e[1] \notin matched
        kept == SelectSeq(indexed, Kept)
    IN  [k \in 1..Len(kept) |-> kept[k][2]]

Substring(s, n) == SubSeq(s, 1, IF Len(s) < n THEN Len(s) ELSE n)

\* normalizedMessage of the log-ingestion route
Normalize(errorMessage) ==
    LET lowered == Trim(ToLowerCase(errorMessage))
        noIso == Strip(lowered, "iso")
        noClock == Strip(noIso, "clock")
        noUuid == Strip(noClock, "uuid")
    IN  Substring(noUuid, PREFIX_LEN)

\* what is hashed: normalizedMessage + projectId (md5 is taken to be free of
\* collisions: two fingerprints are equal when the hashed texts are)
HashInput(errorMessage, projectId) == Normalize(errorMessage) \o projectId

\* ---------------------------------------------- the messages of Scenario C
\* Two faults, each reported at three moments: the report of a fault is the
\* same text every time, but for its timestamp and its request id.
FaultTexts ==
    << <<"D", "B", " ", "T", "i", "m", "e", "o", "u", "t">>,
       <<"N", "u", "l", "l", " ", "P", "o", "i", "n", "t", "e", "r">> >>

Timestamps ==
    << <<"2", "0", "2", "6", "-", "0", "2", "-", "0", "4", "T", "1", "2", ":", "3", "0",
       ":", "4", "5", ".", "1", "2", "3", "Z">>,
       <<"2", "0", "2", "6", "-", "0", "2", "-", "0", "4", "T", "1", "2", ":", "3", "0",
       ":", "5", "0", "Z">>,
       <<"1", "2", ":", "3", "0", ":", "5", "5">> >>

RequestIds ==
    << <<"E", "0", "3", "3", "B", "3", "B", "2", "-", "F", "8", "0", "0", "-", "4", "C",
       "1", "A", "-", "9", "B", "7", "E", "-", "0", "1", "2", "3", "4", "5", "6", "7", "8",
       "9", "A", "B">>,
       <<"a", "1", "b", "2", "c", "3", "d", "4", "-", "0", "0", "0", "0", "-", "4", "c",
       "1", "a", "-", "9", "b", "7", "e", "-", "b", "a", "9", "8", "7", "6", "5", "4", "3",
       "2", "1", "0">>,
       <<"0", "f", "0", "f", "0", "f", "0", "f", "-", "1", "1", "1", "1", "-", "4", "2",
       "2", "2", "-", "8", "3", "3", "3", "-", "4", "4", "4", "4", "4", "4", "4", "4", "4",
       "4", "4", "4">> >>

\* a stack trace that takes the message beyond the hashed prefix
StackTrace == [k \in 1..PREFIX_LEN |-> "x"]

ProjectIds == {<<"p", "1">>, <<"p", "2">>}

MessageSet == [fault : DOMAIN FaultTexts, occurrence : DOMAIN Timestamps]
NoMessage == [fault |-> 0, occurrence |-> 0]

\* Short messages, as a log line without a stack trace is, and project
\* identifiers of different lengths (the route takes any string as :projectId).
BriefTexts ==
    << <<"O", "O", "M", " ", "o", "n", " ", "n", "o", "d", "e", "1">>,
       <<"O", "O", "M", " ", "o", "n", " ", "n", "o", "d", "e">> >>

BriefProjectIds == {<<"0">>, <<"1", "0">>}

BriefMessages == [fault : DOMAIN BriefTexts, occurrence : {0}]

\* the text of errorLog.message
Text(m) ==
    IF m.occurrence = 0 THEN BriefTexts[m.fault] ELSE
    <<"[">> \o Timestamps[m.occurrence] \o <<"]", " ">> \o FaultTexts[m.fault]
    \o <<" ", "r", "e", "q", "=">> \o RequestIds[m.occurrence] \o <<" ">> \o StackTrace

\* the hashed text of every message and project, computed once
Hashed ==
    {[message |-> m, projectId |-> projectId, text |-> HashInput(Text(m), projectId)] :
        m \in MessageSet \cup BriefMessages, projectId \in ProjectIds \cup BriefProjectIds}

HashedText(m, projectId) ==
    (CHOOSE h \in Hashed : h.message = m /\ h.projectId = projectId).text

\* ------------------------------------------------------------------ tasks
\* The watcher singleton of routes/watcher.ts.  config: configure was called;
\* pollInterval: the handle held by the agent (0: undefined); timers: the
\* intervals that are set in the event loop; created: how many were set;
\* checks: how many times checkLogs ran; periodic: the values status had when an
\* interval fired.
NoWatcher == [config |-> FALSE, status |-> "IDLE", pollInterval |-> 0, timers |-> {},
              created |-> 0, checks |-> 0, periodic |-> {}]

NoWf == [pc |-> "none", errorSource |-> "none", rcaOk |-> FALSE, attempt |-> 0,
         verified |-> FALSE, verificationLogs |-> 0, currentPatchData |-> 0,
         patchFeedback |-> <<>>, verifiedPatch |-> <<>>, patchError |-> "none",
         token |-> "none", hasProject |-> TRUE]

NoTask == [kind |-> "none", pc |-> "idle", atGate |-> FALSE, status |-> "NONE", meta |-> NoMeta]

\* a handler that has returned keeps nothing
DoneTask == [NoTask EXCEPT !.pc = "done"]

\* a handler whose promise was rejected: an exception left it
ThrewTask == [NoTask EXCEPT !.pc = "threw"]

NoInv == [verifyLoop |-> 0, verifyApprove |-> 0, verifyManual |-> 0, pr |-> 0,
          prCreated |-> 0, approveCalled |-> FALSE, decisionRequests |-> 0]

NoResponse == [incidentId |-> 0, duplicate |-> FALSE]

NoReq == [pc |-> "idle", fingerprint |-> 0, errorSource |-> "none", duplicate |-> 0,
          response |-> NoResponse, message |-> NoMessage, projectId |-> <<>>,
          runId |-> 0]

Init ==
    /\ build \in Builds
    /\ slack \in BOOLEAN
    /\ req = [r \in Ids |-> NoReq]
    /\ db = [i \in Ids |-> NoRow]
    /\ agentRuns = [i \in Ids |-> NoRuns]
    /\ activeIncidents = [i \in Ids |-> "NONE"]
    /\ wf = [i \in Ids |-> NoWf]
    /\ task = [i \in Ids |-> [k \in Slots |-> NoTask]]
    /\ inv = [i \in Ids |-> NoInv]
    /\ lastEmit = [i \in Ids |-> Event(i, "NONE", "")]
    /\ executors = [a \in Executors |-> NoExecutor]
    /\ watcher = NoWatcher

\* ------------------------------------------------------ the access token
\* extractMetadata of the log-ingestion route.  The revision of the route that
\* writes the placeholder (logIngestion.ts) goes with the orchestrator that
\* fetches the token from the secret store (part_009); the revision that passes
\* project.githubToken on (part_005) goes with the orchestrator that uses
\* metadata.token as it is given (orchestrator.ts).
RouteToken == IF build = "current" THEN "REDACTED" ELSE "raw"

\* runWorkflow: a token that is missing or redacted is fetched from the secret
\* store when the incident names its project (the store holds the token of
\* every project)
FetchedToken(token, hasProject) ==
    IF build = "current" /\ hasProject /\ token \in {"none", "REDACTED"} THEN "raw" ELSE token

\* ---------------------------------------------------- log ingestion route
\* POST /:projectId up to the await of db.incident.findFirst; requests are
\* numbered in their order of arrival, and fingerprints in the order in which
\* they are first seen
Receive(r, fp, es) ==
    /\ req[r].pc = "idle"
    /\ \A q \in Ids : q < r => req[q].pc # "idle"
    /\ \A g \in Fingerprints : g < fp => \E q \in Ids : req[q].fingerprint = g
    /\ req' = [req EXCEPT ![r] = [pc |-> "findFirst", fingerprint |-> fp,
                                  errorSource |-> es, duplicate |-> 0,
                                  response |-> NoResponse,
                                  message |-> NoMessage, projectId |-> <<>>,
                                  runId |-> 0]]
    /\ UNCHANGED <<executors, watcher, build, slack, db, agentRuns, activeIncidents, wf, task, inv, lastEmit>>

\* crypto.createHash("md5").update(normalizedMessage + projectId).digest("hex"):
\* the number of the fingerprint of a hashed text is that of an earlier request
\* with the same hashed text, and the next unused number when there is none
FingerprintOf(m, projectId) ==
    LET same == {q \in Ids : /\ req[q].message # NoMessage
                             /\ HashedText(req[q].message, req[q].projectId)
                                = HashedText(m, projectId)}
    IN  IF same # {} THEN req[CHOOSE q \in same : TRUE].fingerprint
        ELSE 1 + Cardinality({req[q].fingerprint : q \in Ids} \ {0})

\* POST /:projectId with the text of the message: the same segment as Receive,
\* the fingerprint computed from the text
Submit(r, m, projectId, es) ==
    /\ req[r].pc = "idle"
    /\ \A q \in Ids : q < r => req[q].pc # "idle"
    /\ req' = [req EXCEPT ![r] = [pc |-> "findFirst",
                                  fingerprint |-> FingerprintOf(m, projectId),
                                  errorSource |-> es, duplicate |-> 0,
                                  response |-> NoResponse,
                                  message |-> m, projectId |-> projectId,
                                  runId |-> 0]]
    /\ UNCHANGED <<executors, watcher, build, slack, db, agentRuns, activeIncidents, wf, task, inv, lastEmit>>

\* metadata.token of a webhook incident: /webhook/github passes
\* project?.githubToken on, /webhook/jenkins names neither token nor project
WebhookRoutes == {"github", "jenkins"}
WebhookToken(route) == IF route = "github" THEN "raw" ELSE "none"

\* POST /webhook/github (workflow_run completed with conclusion failure) and
\* POST /webhook/jenkins (build_status FAILURE): delivery r reports the failed
\* run or build number run.  The incident gets a fresh id and no fingerprint, and
\* orchestrator.handleIncident runs up to its await of db.incident.create; the
\* handler broadcasts the incident once more and answers 202.  Runs are numbered
\* in the order in which they are first reported.
WebhookDelivery(r, run, route) ==
    /\ req[r].pc = "idle"
    /\ \A q \in Ids : q < r => req[q].pc # "idle"
    /\ \A g \in RunIds : g < run => \E q \in Ids : req[q].runId = g
    /\ req' = [req EXCEPT ![r] = [NoReq EXCEPT !.pc = "done", !.errorSource = "ci-cd",
                                               !.runId = run,
                                               !.response = [incidentId |-> r,
                                                             duplicate |-> FALSE]]]
    /\ activeIncidents' = [activeIncidents EXCEPT ![r] = "OPEN"]
    /\ wf' = [wf EXCEPT ![r] = [NoWf EXCEPT !.pc = "create", !.errorSource = "ci-cd",
                                            !.token = WebhookToken(route),
                                            !.hasProject = route = "github"]]
    /\ EmitAll(r, WithToken(<<Event(r, "OPEN", ""), Event(r, "OPEN", "")>>, WebhookToken(route)))
    /\ UNCHANGED <<executors, watcher, build, slack, db, agentRuns, task, inv>>

\* db.incident.findFirst answers
FindFirst(r) ==
    /\ req[r].pc = "findFirst"
    /\ \/ /\ Duplicates(req[r].fingerprint) = {}
          /\ req' = [req EXCEPT ![r].pc = "checked", ![r].duplicate = 0]
       \/ \E d \in Duplicates(req[r].fingerprint) :
             req' = [req EXCEPT ![r].pc = "checked", ![r].duplicate = d]
    /\ UNCHANGED <<executors, watcher, build, slack, db, agentRuns, activeIncidents, wf, task, inv, lastEmit>>

\* the duplicate branch: the row is updated and the response names it
MergeDuplicate(r) ==
    /\ req[r].pc = "checked"
    /\ req[r].duplicate # 0
    /\ db' = [db EXCEPT ![req[r].duplicate] = MergedRow(@, r)]
    /\ req' = [req EXCEPT ![r].pc = "done",
                          ![r].response = [incidentId |-> req[r].duplicate, duplicate |-> TRUE]]
    /\ UNCHANGED <<executors, watcher, build, slack, agentRuns, activeIncidents, wf, task, inv, lastEmit>>

\* no duplicate: the incident is built and orchestrator.handleIncident runs up
\* to its await of db.incident.create (cache first, then the broadcast)
HandleIncident(r) ==
    /\ req[r].pc = "checked"
    /\ req[r].duplicate = 0
    /\ req' = [req EXCEPT ![r].pc = "done",
                          ![r].response = [incidentId |-> r, duplicate |-> FALSE]]
    /\ activeIncidents' = [activeIncidents EXCEPT ![r] = "OPEN"]
    /\ wf' = [wf EXCEPT ![r] = [NoWf EXCEPT !.pc = "create", !.errorSource = req[r].errorSource,
                                            !.token = RouteToken]]
    /\ EmitAll(r, WithToken(<<Event(r, "OPEN", "")>>, RouteToken))
    /\ UNCHANGED <<executors, watcher, build, slack, db, agentRuns, task, inv>>

\* ------------------------------------------------- AgentOrchestrator.runWorkflow
\* db.incident.create answers (created) or throws, which handleIncident logs
\* and ignores; runWorkflow starts and runs up to the RCA executor
PersistIncident(i, created) ==
    /\ wf[i].pc = "create"
    /\ db' = IF created
             THEN [db EXCEPT ![i] = [NewRow(req[i].fingerprint, i) EXCEPT !.meta.token = wf[i].token]]
             ELSE db
    /\ activeIncidents' = [activeIncidents EXCEPT ![i] = "RCA_IN_PROGRESS"]
    /\ agentRuns' = [agentRuns EXCEPT ![i] = LoggedOf(created, @, <<Run("RCA", "WORKING")>>)]
    /\ LET fetched == FetchedToken(wf[i].token, wf[i].hasProject)
       IN  /\ EmitAll(i, <<Event(i, "RCA_IN_PROGRESS", "Analyzing Root Cause...")>>
                         \o WithToken(LogEventOf(created, i, "RCA_IN_PROGRESS"), fetched))
           /\ wf' = [wf EXCEPT ![i].pc = "rca", ![i].token = fetched]
    /\ UNCHANGED <<watcher, build, slack, req, task, inv>>
    /\ executors' = [executors EXCEPT !["RCA"] = Wrote(i, "WORKING")]

\* the RCA executor returns; a failure is logged and the workflow goes on to Patch
RcaDone(i, ok) ==
    /\ wf[i].pc = "rca"
    /\ activeIncidents' = [activeIncidents EXCEPT ![i] = "PATCH_IN_PROGRESS"]
    /\ agentRuns' = [agentRuns EXCEPT ![i] =
           LoggedFor(i, @, <<Run("RCA", IF ok THEN "COMPLETED" ELSE "FAILED"), Run("Patch", "WORKING")>>)]
    /\ EmitAll(i, LogEvent(i, activeIncidents[i])
                  \o (IF ok THEN <<Event(i, activeIncidents[i], "RCA Complete")>> ELSE <<>>)
                  \o <<Event(i, "PATCH_IN_PROGRESS", "Generating Code Fix...")>>
                  \o LogEvent(i, "PATCH_IN_PROGRESS"))
    /\ wf' = [wf EXCEPT ![i].pc = "patch", ![i].rcaOk = ok,
                        ![i].patchFeedback = Append(@, 0)]
    /\ UNCHANGED <<watcher, build, slack, req, db, task, inv>>
    /\ executors' = [executors EXCEPT !["RCA"] = Wrote(i, Terminal(ok)),
                                       !["Patch"] = Wrote(i, "WORKING")]

EffectiveErrorSourceGated(es) == "production"

\* metadata?.errorSource || "production"
EffectiveErrorSource(es) == IF es = "none" THEN "production" ELSE es

\* the first statements of one pass of the verification (part_009: 3.2 Verify;
\* orchestrator.ts: Step 3) up to the Verify executor
StartVerify(i, w, evs, runs) ==
    /\ activeIncidents' = [activeIncidents EXCEPT ![i] = "VERIFY_IN_PROGRESS"]
    /\ agentRuns' = [agentRuns EXCEPT ![i] = LoggedFor(i, @, runs \o <<Run("Verify", "WORKING")>>)]
    /\ EmitAll(i, evs \o <<Event(i, "VERIFY_IN_PROGRESS", "Verifying Fix in Sandbox")>>
                  \o LogEvent(i, "VERIFY_IN_PROGRESS"))
    /\ inv' = [inv EXCEPT ![i].verifyLoop = @ + 1]
    /\ wf' = [wf EXCEPT ![i] = [w EXCEPT !.pc = "loop_verify",
                                       !.verifiedPatch = Append(@, w.currentPatchData)]]

\* the initial Patch executor returns
PatchDone(i, geminiOk) ==
    /\ wf[i].pc = "patch"
    /\ LET ok == PatchAgentExecute(wf[i].rcaOk, geminiOk)
           err == PatchAgentError(wf[i].rcaOk, geminiOk)
           st == activeIncidents[i]
           es == EffectiveErrorSource(wf[i].errorSource)
           logged == <<Run("Patch", IF ok THEN "COMPLETED" ELSE "FAILED")>>
       IN  IF ~ok
           THEN IF build = "current"
                THEN /\ activeIncidents' = [activeIncidents EXCEPT ![i] = "FAILED"]
                     /\ db' = [db EXCEPT ![i] = Updated(@, FailedRow(@))]
                     /\ EmitAll(i, LogEvent(i, st)
                                   \o <<Event(i, "FAILED", "Patch Generation Failed")>>)
                     /\ agentRuns' = [agentRuns EXCEPT ![i] = LoggedFor(i, @, logged)]
                     /\ wf' = [wf EXCEPT ![i].pc = "done", ![i].patchError = err]
                     /\ UNCHANGED inv
                ELSE /\ agentRuns' = [agentRuns EXCEPT ![i] = LoggedFor(i, @, logged)]
                     /\ wf' = [wf EXCEPT ![i].pc = "done", ![i].patchError = err]
                     /\ UNCHANGED <<activeIncidents, db, lastEmit, inv>>
           ELSE CASE es = "ci-cd" ->
                     /\ StartVerify(i, [wf[i] EXCEPT !.currentPatchData = 1],
                                    LogEvent(i, st) \o <<Event(i, st, "Patch Generated")>>, logged)
                     /\ UNCHANGED db
                  [] es = "production" ->
                     /\ activeIncidents' = [activeIncidents EXCEPT ![i] = "AWAITING_APPROVAL"]
                     /\ agentRuns' = [agentRuns EXCEPT ![i] = LoggedFor(i, @, logged)]
                     /\ EmitAll(i, LogEvent(i, st) \o <<Event(i, st, "Patch Generated"),
                                   Event(i, "AWAITING_APPROVAL", "Waiting for Approval (Slack)...")>>)
                     /\ wf' = [wf EXCEPT ![i].pc = "approval", ![i].currentPatchData = 1]
                     /\ UNCHANGED <<db, inv>>
                  [] OTHER ->
                     /\ agentRuns' = [agentRuns EXCEPT ![i] = LoggedFor(i, @, logged)]
                     /\ EmitAll(i, LogEvent(i, st) \o <<Event(i, st, "Patch Generated")>>)
                     /\ wf' = [wf EXCEPT ![i].pc = "done", ![i].currentPatchData = 1]
                     /\ UNCHANGED <<activeIncidents, db, inv>>
    /\ UNCHANGED <<watcher, build, slack, req, task>>
    /\ LET ok == PatchAgentExecute(wf[i].rcaOk, geminiOk)
       IN  executors' = [executors EXCEPT
               !["Patch"] = Wrote(i, Terminal(ok)),
               !["Verify"] = IF ok /\ EffectiveErrorSource(wf[i].errorSource) = "ci-cd"
                             THEN Wrote(i, "WORKING") ELSE @]

\* requestApproval after its await of getSlackService.  delivered: the call
\* slackService.sendIncidentNotification returns; when it throws, the rest of
\* requestApproval is skipped and handleIncident catches the error.
RequestApproval(i, delivered) ==
    /\ wf[i].pc = "approval"
    /\ slack \/ delivered
    /\ IF build = "legacy" /\ ~slack
       THEN \* "Slack not configured. Proceeding with auto-fix."
            /\ StartVerify(i, wf[i], <<>>, <<>>)
            /\ UNCHANGED db
       ELSE /\ inv' = [inv EXCEPT ![i].decisionRequests = IF slack THEN @ + 1 ELSE @]
            /\ wf' = [wf EXCEPT ![i].pc = "done"]
            /\ db' = IF delivered
                     THEN \* the context is stored for the resume
                          [db EXCEPT ![i] = Updated(@, ApprovalRow(@, wf[i]))]
                     ELSE db
            /\ UNCHANGED <<agentRuns, activeIncidents, lastEmit>>
    /\ UNCHANGED <<watcher, build, slack, req, task>>
    /\ executors' = [executors EXCEPT
           !["Verify"] = IF build = "legacy" /\ ~slack THEN Wrote(i, "WORKING") ELSE @]

\* ---------------------------------------- AgentOrchestrator.runAutoFixWorkflow
LoopContinuesOffByOne(verified, attempt) == ~verified /\ attempt <= MAX_RETRIES

\* while (!verified && attempt < MAX_RETRIES)
LoopContinues(verified, attempt) == ~verified /\ attempt < MAX_RETRIES

RetryFeedbackDropped(w) == 0

\* previousFailures of the re-patch: verificationLogs
RetryFeedback(w) == w.verificationLogs

\* the patch the next Verify is given: currentPatchData = retryPatchResult.data
RetriedPatch(w) == Len(w.patchFeedback)

\* the message broadcast with status FAILED when the workflow gives up
GiveUpMessage == IF build = "current" THEN "Verification Failed (Max Retries Exceeded)"
                 ELSE "Verification Failed"

\* createPRAndNotify from "Step 4: PR Creation" up to the PR executor; the
\* incident object of a workflow always carries owner and repo
StartPR(i, w, evs, runs) ==
    /\ activeIncidents' = [activeIncidents EXCEPT ![i] = "PR_CREATION_IN_PROGRESS"]
    /\ agentRuns' = [agentRuns EXCEPT ![i] = LoggedFor(i, @, runs \o <<Run("PR", "WORKING")>>)]
    /\ EmitAll(i, evs \o <<Event(i, "PR_CREATION_IN_PROGRESS", "Creating Pull Request...")>>
                  \o LogEvent(i, "PR_CREATION_IN_PROGRESS"))
    /\ inv' = [inv EXCEPT ![i].pr = @ + 1]
    /\ wf' = [wf EXCEPT ![i] = [w EXCEPT !.pc = "pr"]]

\* a Verify executor of the loop returns
LoopVerifyDone(i, ok) ==
    /\ wf[i].pc = "loop_verify"
    /\ LET w == wf[i]
           st == activeIncidents[i]
           logged == <<Run("Verify", IF ok THEN "COMPLETED" ELSE "FAILED")>>
           failed == [w EXCEPT !.verificationLogs = w.attempt + 1, !.attempt = w.attempt + 1]
       IN  IF ok
           THEN /\ StartPR(i, [w EXCEPT !.verified = TRUE], LogEvent(i, st), logged)
                /\ UNCHANGED db
           ELSE IF build = "current" /\ LoopContinues(failed.verified, failed.attempt)
                THEN /\ agentRuns' = [agentRuns EXCEPT ![i] = LoggedFor(i, @, logged \o <<Run("Patch", "WORKING")>>)]
                     /\ EmitAll(i, LogEvent(i, st)
                                   \o <<Event(i, st, "Verification Failed. Retrying Fix")>>
                                   \o LogEvent(i, st))
                     /\ wf' = [wf EXCEPT ![i] = [failed EXCEPT !.pc = "loop_patch",
                                   !.patchFeedback = Append(@, RetryFeedback(failed))]]
                     /\ UNCHANGED <<activeIncidents, db, inv>>
                ELSE /\ agentRuns' = [agentRuns EXCEPT ![i] = LoggedFor(i, @, logged)]
                     /\ EmitAll(i, LogEvent(i, st) \o <<Event(i, "FAILED", GiveUpMessage)>>)
                     /\ wf' = [wf EXCEPT ![i] = [failed EXCEPT !.pc = "done"]]
                     /\ UNCHANGED <<activeIncidents, db, inv>>
    /\ UNCHANGED <<watcher, build, slack, req, task>>
    /\ LET failed == wf[i].attempt + 1
       IN  executors' = [executors EXCEPT
               !["Verify"] = Wrote(i, Terminal(ok)),
               !["Patch"] = IF ~ok /\ build = "current" /\ LoopContinues(FALSE, failed)
                            THEN Wrote(i, "WORKING") ELSE @]

\* a re-patch of the loop returns (3.1 Re-Patch with feedback)
LoopPatchDone(i, geminiOk) ==
    /\ wf[i].pc = "loop_patch"
    /\ LET w == wf[i]
           ok == PatchAgentExecute(w.rcaOk, geminiOk)
       IN  IF ok
           THEN /\ StartVerify(i, [w EXCEPT !.currentPatchData = RetriedPatch(w)],
                               <<>>, <<Run("Patch", "COMPLETED")>>)
                /\ UNCHANGED db
           ELSE \* break: no run is logged for the failed re-patch
                /\ EmitAll(i, <<Event(i, "FAILED", GiveUpMessage)>>)
                /\ wf' = [wf EXCEPT ![i].pc = "done",
                                    ![i].patchError = PatchAgentError(w.rcaOk, geminiOk)]
                /\ UNCHANGED <<agentRuns, activeIncidents, db, inv>>
    /\ UNCHANGED <<watcher, build, slack, req, task>>
    /\ LET ok == PatchAgentExecute(wf[i].rcaOk, geminiOk)
       IN  executors' = [executors EXCEPT
               !["Patch"] = Wrote(i, Terminal(ok)),
               !["Verify"] = IF ok THEN Wrote(i, "WORKING") ELSE @]

\* the PR executor of a workflow returns
PrDone(i, ok) ==
    /\ wf[i].pc = "pr"
    /\ LET st == activeIncidents[i]
       IN  IF ok
           THEN /\ agentRuns' = [agentRuns EXCEPT ![i] = LoggedFor(i, @, <<Run("PR", "COMPLETED")>>)]
                /\ inv' = [inv EXCEPT ![i].prCreated = @ + 1]
                /\ activeIncidents' = [activeIncidents EXCEPT ![i] = "RESOLVED"]
                /\ db' = IF build = "current"
                         THEN [db EXCEPT ![i] = Updated(@, ResolvedRow(@, MemoryMeta(wf[i])))]
                         ELSE db
                /\ EmitAll(i, LogEvent(i, st) \o <<Event(i, "RESOLVED", "PR Created!")>>)
           ELSE /\ agentRuns' = [agentRuns EXCEPT ![i] = LoggedFor(i, @, <<Run("PR", "FAILED")>>)]
                /\ EmitAll(i, LogEvent(i, st) \o <<Event(i, "FAILED", "PR Creation Failed")>>)
                /\ UNCHANGED <<inv, activeIncidents, db>>
    /\ wf' = [wf EXCEPT ![i].pc = "done"]
    /\ UNCHANGED <<executors, watcher, build, slack, req, task>>

\* --------------------------------------------- POST /api/slack/interactions
\* A button click (or a dashboard call) for incident i; the id is known to
\* observers once the creation was broadcast.  atGate records whether the
\* incident was waiting for its decision when the call arrived.
AtGate(i) == activeIncidents[i] = "AWAITING_APPROVAL" /\ ~inv[i].approveCalled

Call(i, k, kind) ==
    /\ task[i][k].pc = "idle"
    /\ k > 1 => task[i][k - 1].pc # "idle"
    /\ activeIncidents[i] # "NONE"
    /\ task' = [task EXCEPT ![i][k] = [NoTask EXCEPT !.kind = kind, !.pc = "findUnique",
                                         !.atGate = AtGate(i)]]
    /\ inv' = [inv EXCEPT ![i].approveCalled = @ \/ kind = "approve"]
    /\ UNCHANGED <<executors, watcher, build, slack, req, db, agentRuns, activeIncidents, wf, lastEmit>>

\* ------------------------------------------ AgentOrchestrator.handleApproval
\* db.incident.findUnique answers; createPRAndNotify(incident, patchData,
\* rcaData, "production") runs on the loaded row up to the Verify executor
ApproveFind(i, k) ==
    /\ task[i][k].kind = "approve"
    /\ task[i][k].pc = "findUnique"
    /\ IF ~db[i].exists
       THEN /\ task' = [task EXCEPT ![i][k] = DoneTask]
            /\ UNCHANGED <<agentRuns, inv, lastEmit>>
       ELSE /\ task' = [task EXCEPT ![i][k].pc = "verify",
                                    ![i][k].status = "VERIFY_IN_PROGRESS",
                                    ![i][k].meta = db[i].meta]
            /\ agentRuns' = [agentRuns EXCEPT ![i] = LoggedFor(i, @, <<Run("Verify", "WORKING")>>)]
            /\ inv' = [inv EXCEPT ![i].verifyApprove = @ + 1]
            /\ EmitAll(i, <<RowEvent(i, db[i].status, "Approval Received. Resuming...", db[i].meta),
                            RowEvent(i, "VERIFY_IN_PROGRESS", "Verifying Fix in Sandbox",
                                     db[i].meta)>>
                          \o LogEvent(i, activeIncidents[i]))
    /\ UNCHANGED <<watcher, build, slack, req, db, activeIncidents, wf>>
    /\ executors' = [executors EXCEPT
           !["Verify"] = IF db[i].exists THEN Wrote(i, "WORKING") ELSE @]

\* the Verify executor of an approval returns
ApproveVerifyDone(i, k, ok) ==
    /\ task[i][k].kind = "approve"
    /\ task[i][k].pc = "verify"
    /\ LET t == task[i][k]
           logged == <<Run("Verify", IF ok THEN "COMPLETED" ELSE "FAILED")>>
           cached == LogEvent(i, activeIncidents[i])
           creating == RowEvent(i, "PR_CREATION_IN_PROGRESS", "Creating Pull Request...", t.meta)
       IN  IF ~ok
           THEN /\ agentRuns' = [agentRuns EXCEPT ![i] = LoggedFor(i, @, logged)]
                /\ EmitAll(i, cached \o <<RowEvent(i, "FAILED", "Verification Failed", t.meta)>>)
                /\ task' = [task EXCEPT ![i][k] = DoneTask]
                /\ UNCHANGED inv
           ELSE IF ~t.meta.flat
           THEN \* "Skipped PR: Missing owner/repo."
                /\ agentRuns' = [agentRuns EXCEPT ![i] = LoggedFor(i, @, logged)]
                /\ EmitAll(i, cached \o <<creating>>)
                /\ task' = [task EXCEPT ![i][k] = DoneTask]
                /\ UNCHANGED inv
           ELSE IF t.meta.patchData = 0
           THEN \* patchData.fileUpdates throws; handleApproval catches it
                /\ agentRuns' = [agentRuns EXCEPT ![i] = LoggedFor(i, @, logged \o <<Run("PR", "WORKING")>>)]
                /\ EmitAll(i, cached \o <<creating>> \o cached)
                /\ task' = [task EXCEPT ![i][k] = DoneTask]
                /\ UNCHANGED inv
           ELSE /\ agentRuns' = [agentRuns EXCEPT ![i] = LoggedFor(i, @, logged \o <<Run("PR", "WORKING")>>)]
                /\ EmitAll(i, cached \o <<creating>> \o cached)
                /\ task' = [task EXCEPT ![i][k].pc = "pr",
                                        ![i][k].status = "PR_CREATION_IN_PROGRESS"]
                /\ inv' = [inv EXCEPT ![i].pr = @ + 1]
    /\ UNCHANGED <<watcher, build, slack, req, db, activeIncidents, wf>>
    /\ executors' = [executors EXCEPT !["Verify"] = Wrote(i, Terminal(ok))]

\* the PR executor of an approval returns
ApprovePrDone(i, k, ok) ==
    /\ task[i][k].kind = "approve"
    /\ task[i][k].pc = "pr"
    /\ LET cached == LogEvent(i, activeIncidents[i])
       IN  IF ok
           THEN /\ agentRuns' = [agentRuns EXCEPT ![i] = LoggedFor(i, @, <<Run("PR", "COMPLETED")>>)]
                /\ inv' = [inv EXCEPT ![i].prCreated = @ + 1]
                /\ db' = IF build = "current"
                         THEN [db EXCEPT ![i] = ResolvedRow(@, task[i][k].meta)]
                         ELSE db
                /\ EmitAll(i, cached \o <<RowEvent(i, "RESOLVED", "PR Created!", task[i][k].meta)>>)
                /\ task' = [task EXCEPT ![i][k] = DoneTask]
           ELSE /\ agentRuns' = [agentRuns EXCEPT ![i] = LoggedFor(i, @, <<Run("PR", "FAILED")>>)]
                /\ EmitAll(i, cached \o <<RowEvent(i, "FAILED", "PR Creation Failed",
                                                     task[i][k].meta)>>)
                /\ task' = [task EXCEPT ![i][k] = DoneTask]
                /\ UNCHANGED <<inv, db>>
    /\ UNCHANGED <<executors, watcher, build, slack, req, activeIncidents, wf>>

\* ----------------------------------------- AgentOrchestrator.handleRejection
\* db.incident.findUnique answers
RejectFind(i, k) ==
    /\ task[i][k].kind = "reject"
    /\ task[i][k].pc = "findUnique"
    /\ IF ~db[i].exists
       THEN task' = [task EXCEPT ![i][k] = DoneTask]
       ELSE task' = [task EXCEPT ![i][k].pc = "update", ![i][k].status = db[i].status,
                                 ![i][k].meta = db[i].meta]
    /\ UNCHANGED <<executors, watcher, build, slack, req, db, agentRuns, activeIncidents, wf, inv, lastEmit>>

\* db.incident.update answers; the broadcast and the cache follow
RejectUpdate(i, k) ==
    /\ task[i][k].kind = "reject"
    /\ task[i][k].pc = "update"
    /\ db' = [db EXCEPT ![i] = RejectedRow(@, task[i][k].meta)]
    /\ EmitAll(i, <<RowEvent(i, "RESOLVED", "Fix Rejected by User (Won't Fix)",
                             task[i][k].meta)>>)
    /\ activeIncidents' = [activeIncidents EXCEPT ![i] = "RESOLVED"]
    /\ task' = [task EXCEPT ![i][k] = DoneTask]
    /\ UNCHANGED <<executors, watcher, build, slack, req, agentRuns, wf, inv>>

\* -------------------------------- AgentOrchestrator.handleVerificationRequest
\* The catch block of handleVerificationRequest reports the error to the thread
\* when the chat service was loaded; replied: that replyToThread returns.  When
\* it throws too, the exception leaves the handler.
CatchAndReply(replied) == IF slack /\ ~replied THEN ThrewTask ELSE DoneTask

\* db.incident.findUnique answers and the start is announced in the thread
\* (announced: that replyToThread returns); without patchData the request ends
\* in the catch block, otherwise the Verify executor is started
VerifyRequestFind(i, k, announced, replied) ==
    /\ task[i][k].kind = "verify_fix"
    /\ task[i][k].pc = "findUnique"
    /\ slack \/ (announced /\ replied)
    /\ db[i].exists \/ (announced /\ replied)
    /\ IF ~db[i].exists
       THEN \* "Incident not found", caught before the chat service is loaded
            /\ task' = [task EXCEPT ![i][k] = DoneTask]
            /\ UNCHANGED <<inv, lastEmit>>
       ELSE /\ EmitAll(i, <<RowEvent(i, db[i].status, "Manual Verification Requested...",
                                      db[i].meta)>>)
            /\ IF ~announced \/ db[i].meta.patchData = 0
               THEN /\ task' = [task EXCEPT ![i][k] = CatchAndReply(replied)]
                    /\ UNCHANGED inv
               ELSE /\ task' = [task EXCEPT ![i][k].pc = "verify", ![i][k].status = db[i].status,
                                            ![i][k].meta = db[i].meta]
                    /\ inv' = [inv EXCEPT ![i].verifyManual = @ + 1]
    /\ UNCHANGED <<watcher, build, slack, req, db, agentRuns, activeIncidents, wf>>
    /\ executors' = [executors EXCEPT
           !["Verify"] = IF db[i].exists /\ announced /\ db[i].meta.patchData # 0
                         THEN Wrote(i, "WORKING") ELSE @]

\* the Verify executor of a manual request returns; the result goes to the
\* thread (announced: that replyToThread returns)
VerifyRequestDone(i, k, ok, announced, replied) ==
    /\ task[i][k].kind = "verify_fix"
    /\ task[i][k].pc = "verify"
    /\ slack \/ (announced /\ replied)
    /\ announced => replied
    /\ task' = [task EXCEPT ![i][k] = IF announced THEN DoneTask ELSE CatchAndReply(replied)]
    /\ executors' = [executors EXCEPT !["Verify"] = Wrote(i, Terminal(ok))]
    /\ UNCHANGED <<watcher, build, slack, req, db, agentRuns, activeIncidents, wf, inv, lastEmit>>

\* ---------------------------------------------------- ProductionWatcherAgent
\* checkLogs: the logs of the last five minutes are fetched; found: an error in
\* them is new to the memory and classified as an incident, which is handed to
\* orchestrator.handleIncident (run up to its await of db.incident.create).
\* The incident takes the next free id; its metadata names no errorSource, no
\* token and no project.
CheckLogs(found) ==
    /\ watcher.checks < MaxChecks
    /\ found => \E r \in Ids : req[r].pc = "idle"
    /\ IF found
       THEN LET r == CHOOSE q \in Ids : req[q].pc = "idle" /\ \A p \in Ids : p < q => req[p].pc # "idle"
            IN  /\ req' = [req EXCEPT ![r] = [NoReq EXCEPT !.pc = "done",
                                                           !.response = [incidentId |-> r,
                                                                         duplicate |-> FALSE]]]
                /\ activeIncidents' = [activeIncidents EXCEPT ![r] = "OPEN"]
                /\ wf' = [wf EXCEPT ![r] = [NoWf EXCEPT !.pc = "create", !.hasProject = FALSE]]
                /\ EmitAll(r, WithToken(<<Event(r, "OPEN", "")>>, "none"))
       ELSE UNCHANGED <<req, activeIncidents, wf, lastEmit>>
    /\ UNCHANGED <<executors, build, slack, db, agentRuns, task, inv>>

\* POST /api/watcher/configure, and the credentials POST /api/watcher/start
\* loads when the watcher has none: ProductionWatcherAgent.configure
Configure ==
    /\ watcher' = [watcher EXCEPT !.config = TRUE]
    /\ UNCHANGED <<executors, build, slack, req, db, agentRuns, activeIncidents, wf, task, inv,
                   lastEmit>>

\* ProductionWatcherAgent.startWatching: the initial check, then setInterval,
\* whose handle is assigned to pollInterval
StartWatching(found) ==
    /\ watcher.created < MaxTimers
    /\ watcher.config
    /\ CheckLogs(found)
    /\ watcher' = [watcher EXCEPT !.status = "WORKING",
                                  !.checks = @ + 1,
                                  !.created = @ + 1,
                                  !.pollInterval = watcher.created + 1,
                                  !.timers = @ \cup {watcher.created + 1}]

\* ProductionWatcherAgent.stopWatching: clearInterval(this.pollInterval)
StopWatching ==
    /\ watcher' = [watcher EXCEPT !.status = "IDLE",
                                  !.pollInterval = 0,
                                  !.timers = @ \ {watcher.pollInterval}]
    /\ UNCHANGED <<executors, build, slack, req, db, agentRuns, activeIncidents, wf, task, inv,
                   lastEmit>>

\* an interval set by startWatching fires: () => this.checkLogs()
Tick(t, found) ==
    /\ t \in watcher.timers
    /\ CheckLogs(found)
    /\ watcher' = [watcher EXCEPT !.checks = @ + 1, !.periodic = @ \cup {watcher.status}]

\* ------------------------------------------------------------ specification
\* the steps of incident i's own workflow
Workflow(i) ==
    \/ PersistIncident(i, TRUE)
    \/ \E ok \in BOOLEAN : RcaDone(i, ok)
    \/ \E ok \in BOOLEAN : PatchDone(i, ok)
    \/ \E delivered \in BOOLEAN : RequestApproval(i, delivered)
    \/ \E ok \in BOOLEAN : LoopVerifyDone(i, ok)
    \/ \E ok \in BOOLEAN : LoopPatchDone(i, ok)
    \/ \E ok \in BOOLEAN : PrDone(i, ok)

\* the interactions with incident i
Interactions(i) ==
    \/ \E k \in Slots, kind \in Kinds : Call(i, k, kind)
    \/ \E k \in Slots : ApproveFind(i, k)
    \/ \E k \in Slots, ok \in BOOLEAN : ApproveVerifyDone(i, k, ok)
    \/ \E k \in Slots, ok \in BOOLEAN : ApprovePrDone(i, k, ok)
    \/ \E k \in Slots : RejectFind(i, k)
    \/ \E k \in Slots : RejectUpdate(i, k)
    \/ \E k \in Slots, announced, replied \in BOOLEAN : VerifyRequestFind(i, k, announced, replied)
    \/ \E k \in Slots, ok, announced, replied \in BOOLEAN :
          VerifyRequestDone(i, k, ok, announced, replied)

\* Spec: one submission and its incident, under every interleaving of its
\* workflow with approve / reject / verify_fix interactions.
First == CHOOSE i \in Ids : \A j \in Ids : i <= j

Next ==
    \/ \E fp \in Fingerprints, es \in ErrorSources : Receive(First, fp, es)
    \/ FindFirst(First)
    \/ HandleIncident(First)
    \/ Workflow(First)
    \/ Interactions(First)

Spec == Init /\ [][Next]_vars

\* SpecIngest: several submissions racing through the log-ingestion route, each
\* incident running its workflow, with no interaction from outside.
NextIngest ==
    \/ \E r \in Ids, fp \in Fingerprints, es \in ErrorSources : Receive(r, fp, es)
    \/ \E r \in Ids : FindFirst(r)
    \/ \E r \in Ids : MergeDuplicate(r)
    \/ \E r \in Ids : HandleIncident(r)
    \/ \E i \in Ids : Workflow(i)

SpecIngest == Init /\ [][NextIngest]_vars

\* SpecWebhook: deliveries of the CI webhooks, a failed run possibly delivered
\* more than once, each incident running its workflow (that of errorSource
\* "ci-cd", which never asks for approval).
AutoFixWorkflow(i) ==
    \/ PersistIncident(i, TRUE)
    \/ \E ok \in BOOLEAN : RcaDone(i, ok)
    \/ \E ok \in BOOLEAN : PatchDone(i, ok)
    \/ \E ok \in BOOLEAN : LoopVerifyDone(i, ok)
    \/ \E ok \in BOOLEAN : LoopPatchDone(i, ok)
    \/ \E ok \in BOOLEAN : PrDone(i, ok)

NextWebhook ==
    \/ \E r \in Ids, run \in RunIds, route \in WebhookRoutes : WebhookDelivery(r, run, route)
    \/ \E i \in Ids : AutoFixWorkflow(i)

SpecWebhook == Init /\ [][NextWebhook]_vars

\* SpecScenarioC: submissions with the text of their message, each followed up
\* to the stored incident; no incident is resolved in the meantime.
NextScenarioC ==
    \/ \E r \in Ids, m \in MessageSet, projectId \in ProjectIds :
          Submit(r, m, projectId, "production")
    \/ \E r \in Ids : FindFirst(r)
    \/ \E r \in Ids : MergeDuplicate(r)
    \/ \E r \in Ids : HandleIncident(r)
    \/ \E i \in Ids : PersistIncident(i, TRUE)

SpecScenarioC == Init /\ [][NextScenarioC]_vars

\* SpecCreateFails: SpecIngest with a store that may refuse db.incident.create
\* (the store is down, or the row violates a constraint).
NextCreateFails ==
    \/ NextIngest
    \/ \E i \in Ids : PersistIncident(i, FALSE)

SpecCreateFails == Init /\ [][NextCreateFails]_vars

\* SpecProjects: submissions of short messages for projects whose identifiers
\* differ in length, each followed up to the stored incident.
NextProjects ==
    \/ \E r \in Ids, m \in BriefMessages, projectId \in BriefProjectIds :
          Submit(r, m, projectId, "production")
    \/ \E r \in Ids : FindFirst(r)
    \/ \E r \in Ids : MergeDuplicate(r)
    \/ \E r \in Ids : HandleIncident(r)
    \/ \E i \in Ids : PersistIncident(i, TRUE)

SpecProjects == Init /\ [][NextProjects]_vars

\* SpecWatcher: the production watcher under every sequence of configure,
\* start and stop calls and of firing intervals; the incidents it hands to the
\* orchestrator are followed up to the call.
NextWatcher ==
    \/ Configure
    \/ \E found \in BOOLEAN : StartWatching(found)
    \/ StopWatching
    \/ \E t \in 1..MaxTimers, found \in BOOLEAN : Tick(t, found)

SpecWatcher == Init /\ [][NextWatcher]_vars

\* SpecLive: Spec with the scheduling of Node's event loop: a continuation that
\* is ready runs, and an awaited store call or executor returns.  Submissions
\* and button clicks come from outside and are under no obligation.
Internal(i) ==
    \/ FindFirst(i)
    \/ HandleIncident(i)
    \/ Workflow(i)
    \/ \E k \in Slots : ApproveFind(i, k)
    \/ \E k \in Slots, ok \in BOOLEAN : ApproveVerifyDone(i, k, ok)
    \/ \E k \in Slots, ok \in BOOLEAN : ApprovePrDone(i, k, ok)
    \/ \E k \in Slots : RejectFind(i, k)
    \/ \E k \in Slots : RejectUpdate(i, k)
    \/ \E k \in Slots, announced, replied \in BOOLEAN : VerifyRequestFind(i, k, announced, replied)
    \/ \E k \in Slots, ok, announced, replied \in BOOLEAN :
          VerifyRequestDone(i, k, ok, announced, replied)

SpecLive == Init /\ [][Next]_vars /\ WF_vars(Internal(First))

\* ===================================================================== claims
Production(i) == wf[i].pc # "none" /\ EffectiveErrorSource(wf[i].errorSource) = "production"

InProgressAfterGate == {"VERIFY_IN_PROGRESS", "PR_CREATION_IN_PROGRESS"}

\* C1: a production incident has no Verify and no PR executor invocation, and
\* its status is neither VERIFY_IN_PROGRESS nor PR_CREATION_IN_PROGRESS, as long
\* as approve has not been called for it, with or without Slack configured.
C1_ApprovalGating ==
    \A i \in Ids :
        (Production(i) /\ ~inv[i].approveCalled) =>
            /\ inv[i].verifyLoop = 0
            /\ inv[i].verifyApprove = 0
            /\ inv[i].verifyManual = 0
            /\ inv[i].pr = 0
            /\ activeIncidents[i] \notin InProgressAfterGate

\* C2: the store never holds two incidents of one fingerprint that are both
\* not RESOLVED, also when two submissions race.
C2_OneOpenIncidentPerFingerprint ==
    \A i, j \in Ids :
        (i # j /\ db[i].exists /\ db[j].exists /\ db[i].fingerprint = db[j].fingerprint) =>
            (db[i].status = "RESOLVED" \/ db[j].status = "RESOLVED")

\* C3: once the stored status of an incident is FAILED or RESOLVED no step
\* changes it.
C3_TerminalSticky ==
    [][\A i \in Ids : db[i].status \in {"FAILED", "RESOLVED"} => db'[i].status = db[i].status]_vars

\* C4: the post-approval Verify and PR steps run at most once per incident, so
\* at most one Pull Request is created for it.
C4_OneWorkflowPerIncident ==
    \A i \in Ids : inv[i].verifyApprove <= 1 /\ inv[i].prCreated <= 1

\* C5: an approve that arrives for an incident that is not waiting at the gate
\* does nothing: its steps invoke no executor, record no AgentRun and leave the
\* incident's status and metadata as they are.
C5_ApproveIdempotent ==
    [][\A i \in Ids, k \in Slots :
          (task[i][k].kind = "approve" /\ ~task[i][k].atGate /\ task'[i][k] # task[i][k]) =>
              /\ inv'[i] = inv[i]
              /\ agentRuns'[i] = agentRuns[i]
              /\ db'[i] = db[i]
              /\ activeIncidents'[i] = activeIncidents[i]]_vars

\* C6: a reject that arrives while the incident waits at the gate stores status
\* RESOLVED with rejectedBy and rejectionReason in the metadata, and its steps
\* invoke no Verify or PR executor and create no Pull Request.
C6_RejectAtGate ==
    [][\A i \in Ids, k \in Slots :
          (task[i][k].kind = "reject" /\ task[i][k].atGate /\ task'[i][k] # task[i][k]) =>
              /\ inv'[i] = inv[i]
              /\ agentRuns'[i] = agentRuns[i]
              /\ task[i][k].pc = "findUnique" => task'[i][k].pc = "update"
              /\ task[i][k].pc = "update" =>
                    /\ db'[i].status = "RESOLVED"
                    /\ db'[i].meta.rejectedBy
                    /\ db'[i].meta.rejectionReason]_vars

C6_Witness ==
    \E i \in Ids :
        /\ db[i].status = "RESOLVED" /\ db[i].meta.rejectedBy /\ db[i].meta.awaitingApproval
        /\ ~inv[i].approveCalled /\ inv[i].prCreated = 0

\* C7: a reject that arrives for an incident that is not waiting at the gate
\* leaves the stored status and metadata as they are and broadcasts nothing.
C7_RejectIdempotent ==
    [][\A i \in Ids, k \in Slots :
          (task[i][k].kind = "reject" /\ ~task[i][k].atGate /\ task'[i][k] # task[i][k]) =>
              /\ db'[i] = db[i]
              /\ lastEmit'[i] = lastEmit[i]
              /\ activeIncidents'[i] = activeIncidents[i]]_vars

\* C8: the self-healing loop invokes the Verify executor at most 3 times for an
\* incident, whatever the Verify and Patch outcomes are.
C8_AtMostThreeVerifies == \A i \in Ids : inv[i].verifyLoop <= 3

C8_Witness == \E i \in Ids : inv[i].verifyLoop = 3 /\ wf[i].pc = "loop_verify"

Exhausted(i) == wf[i].attempt = MAX_RETRIES /\ ~wf[i].verified

C10_ExhaustionFails ==
    \A i \in Ids :
        (Exhausted(i) /\ \A k \in Slots : task[i][k].pc = "idle") =>
            /\ wf[i].pc = "done"
            /\ inv[i].verifyLoop = 3
            /\ inv[i].pr = 0
            /\ lastEmit[i].msg = "Verification Failed (Max Retries Exceeded)"
            /\ (activeIncidents[i] = "FAILED" \/ db[i].status = "FAILED")

\* a step of incident i that is a terminal step failure: the initial Patch
\* failed, a PR creation failed, the Verify after an approval failed, or a
\* Verify of the auto-fix path failed and the workflow gave up
TerminalFailureStep(i) ==
    \/ agentRuns'[i][Run("Patch", "FAILED")] > agentRuns[i][Run("Patch", "FAILED")]
    \/ agentRuns'[i][Run("PR", "FAILED")] > agentRuns[i][Run("PR", "FAILED")]
    \/ /\ agentRuns'[i][Run("Verify", "FAILED")] > agentRuns[i][Run("Verify", "FAILED")]
       /\ \/ wf[i].pc = "loop_verify" /\ wf'[i].pc = "done"
          \/ \E k \in Slots : task[i][k].kind = "approve" /\ task[i][k].pc = "verify"
                              /\ task'[i][k] # task[i][k]

\* C11: after every terminal step failure the stored status of the incident is
\* FAILED and the latest broadcast carries status FAILED and a status message.
C11_TerminalFailurePersisted ==
    [][\A i \in Ids :
          TerminalFailureStep(i) =>
              /\ db'[i].status = "FAILED"
              /\ lastEmit'[i].status = "FAILED"
              /\ lastEmit'[i].msg # ""]_vars

\* C12: when the workflow of an incident whose errorSource is neither "ci-cd"
\* nor "production" has returned after a successful Patch, and nobody has
\* interacted with the incident, its status is AWAITING_APPROVAL.
C12_FailSafeBranching ==
    \A i \in Ids :
        (/\ wf[i].pc = "done"
         /\ wf[i].currentPatchData > 0
         /\ EffectiveErrorSource(wf[i].errorSource) \notin {"ci-cd", "production"}
         /\ \A k \in Slots : task[i][k].pc = "idle") =>
            activeIncidents[i] = "AWAITING_APPROVAL"

ApprovedAtGate(i) ==
    \E k \in Slots : task[i][k].kind = "approve" /\ task[i][k].atGate /\ task[i][k].pc = "findUnique"

VerifyOrPrFailed(i) ==
    agentRuns[i][Run("Verify", "FAILED")] > 0 \/ agentRuns[i][Run("PR", "FAILED")] > 0

\* C14: a production incident whose RCA succeeded and whose Patch is running
\* eventually has status AWAITING_APPROVAL unless the Patch fails; and once
\* approve has been called for an incident with status AWAITING_APPROVAL, its
\* stored status eventually is RESOLVED unless a Verify or a PR creation fails.
C14_ScenarioB ==
    \A i \in Ids :
        /\ (Production(i) /\ wf[i].pc = "patch" /\ wf[i].rcaOk)
              ~> (activeIncidents[i] = "AWAITING_APPROVAL"
                  \/ agentRuns[i][Run("Patch", "FAILED")] > 0)
        /\ ApprovedAtGate(i) ~> (db[i].status = "RESOLVED" \/ VerifyOrPrFailed(i))

\* C15: once requestApproval has returned with the incident in
\* AWAITING_APPROVAL the stored metadata holds the root-cause and the patch
\* context, with or without Slack and also when the decision request could not
\* be sent; and an approve called for an incident in AWAITING_APPROVAL never
\* resumes on a row without patch data.
C15_ContextPersistedAtGate ==
    \A i \in Ids :
        /\ (activeIncidents[i] = "AWAITING_APPROVAL" /\ wf[i].pc = "done") =>
              (db[i].meta.rcaData /\ db[i].meta.patchData > 0 /\ db[i].meta.awaitingApproval)
        /\ \A k \in Slots :
              (task[i][k].kind = "approve" /\ task[i][k].atGate /\ task[i][k].pc = "verify") =>
                  task[i][k].meta.patchData > 0

\* the db.agentRun rows of incident i written for agent name
AgentRunsOf(i, name) ==
    agentRuns[i][Run(name, "WORKING")] + agentRuns[i][Run(name, "COMPLETED")]
        + agentRuns[i][Run(name, "FAILED")]

\* Scenario A has run to its end: a ci-cd incident whose Verify failed twice and
\* then succeeded, every Patch and the PR creation succeeded, nobody interacted
ScenarioA(i) ==
    /\ wf[i].errorSource = "ci-cd" /\ wf[i].pc = "done"
    /\ wf[i].verified /\ wf[i].attempt = 2
    /\ inv[i].prCreated = 1
    /\ \A k \in Slots : task[i][k].pc = "idle"

\* C16: at the end of Scenario A the status of the incident is RESOLVED and
\* exactly 3 Verify AgentRuns and 3 Patch AgentRuns are recorded for it.
C16_ScenarioA ==
    \A i \in Ids :
        ScenarioA(i) =>
            /\ db[i].status = "RESOLVED"
            /\ activeIncidents[i] = "RESOLVED"
            /\ AgentRunsOf(i, "Verify") = 3
            /\ AgentRunsOf(i, "Patch") = 3

\* the initial Patch executor of incident i has returned failure (the only
\* Patch run logged as FAILED), and nobody interacted with the incident
InitialPatchFailed(i) ==
    /\ agentRuns[i][Run("Patch", "FAILED")] > 0
    /\ \A k \in Slots : task[i][k].pc = "idle"

\* C17: when the initial Patch executor has returned failure the workflow has
\* stopped, the status of the incident is FAILED, no Verify and no PR AgentRun
\* exists for it and no approval was requested.
C17_ScenarioD ==
    \A i \in Ids :
        InitialPatchFailed(i) =>
            /\ wf[i].pc = "done"
            /\ activeIncidents[i] = "FAILED"
            /\ db[i].status = "FAILED"
            /\ AgentRunsOf(i, "Verify") = 0
            /\ AgentRunsOf(i, "PR") = 0
            /\ inv[i].decisionRequests = 0
            /\ ~db[i].meta.awaitingApproval

\* C18: after an RCA failure the workflow goes on to PATCH_IN_PROGRESS and the
\* Patch executor is invoked; and no Patch result is a failure for want of RCA
\* data, so the RCA failure alone never makes the incident FAILED.
C18_RcaFailureTolerated ==
    \A i \in Ids :
        /\ (agentRuns[i][Run("RCA", "FAILED")] > 0) =>
              (wf[i].pc # "rca" /\ agentRuns[i][Run("Patch", "WORKING")] > 0)
        /\ wf[i].patchError # "Missing RCA context"

\* the submissions that were answered as duplicates of incident d
MergedInto(d) ==
    {r \in Ids : req[r].pc = "done" /\ req[r].response.duplicate /\ req[r].response.incidentId = d}

\* a step in which request r, whose lookup found incident d, is answered
MergeStep(r, d) ==
    req[r].pc = "checked" /\ req[r].duplicate = d /\ d # 0 /\ req'[r].pc = "done"

SameFault(r, q) ==
    /\ req[r].message # NoMessage /\ req[q].message # NoMessage
    /\ req[r].message.fault = req[q].message.fault
    /\ req[r].projectId = req[q].projectId

\* C20 (Scenario C): two messages for the same project that are the same text
\* but for their timestamps (ISO-8601 or HH:MM:SS) and UUID-shaped substrings
\* have the same fingerprint; so the lookup of the second, made when the
\* incident of the first is stored, finds an incident of that fingerprint, and
\* merging it leaves the number of incident records as it was and takes the
\* occurrenceCount from 1 to 2.
C20_ScenarioC ==
    /\ [](\A r \in Ids, q \in Ids : SameFault(r, q) => req[r].fingerprint = req[q].fingerprint)
    /\ [][\A r \in Ids, q \in Ids :
             ( /\ r # q /\ SameFault(r, q)
               /\ db[q].exists /\ db[q].status # "RESOLVED"
               /\ req[r].pc = "findFirst" /\ req'[r].pc = "checked" )
             => /\ req'[r].duplicate # 0
                /\ db[req'[r].duplicate].fingerprint = req[r].fingerprint]_vars
    /\ [][\A r \in Ids, d \in Ids :
             (MergeStep(r, d) /\ db[d].occurrenceCount = 1)
             => /\ db'[d].occurrenceCount = 2
                /\ {j \in Ids : db'[j].exists} = {j \in Ids : db[j].exists}]_vars

C20_Witness ==
    \E q \in Ids, r \in Ids :
        /\ SameFault(r, q) /\ req[r].message # req[q].message
        /\ req[r].response = [incidentId |-> q, duplicate |-> TRUE]
        /\ db[q].occurrenceCount = 2
        /\ {j \in Ids : db[j].exists} = {q}

\* the workflow of incident i has started and has not returned
Live(i) == wf[i].pc \notin {"none", "done"}

\* C21: a trigger that reports a failed run for which an incident is already
\* being worked on starts no second workflow: no two workflows are live for
\* deliveries of the same run.
C21_TriggersDeduplicated ==
    \A r \in Ids, q \in Ids :
        (r # q /\ req[r].runId # 0 /\ req[r].runId = req[q].runId) => ~(Live(r) /\ Live(q))

\* C22: after every change of the status of an incident's workflow the status
\* recorded in the store is the workflow's status.
C22_TransitionsPersisted ==
    [][\A i \in Ids :
          (activeIncidents'[i] # activeIncidents[i] /\ db'[i].exists) =>
              db'[i].status = activeIncidents'[i]]_vars

\* C23: every change of an incident's status follows an edge of the state
\* graph: OPEN to RCA_IN_PROGRESS to PATCH_IN_PROGRESS to AWAITING_APPROVAL or
\* VERIFY_IN_PROGRESS, AWAITING_APPROVAL to VERIFY_IN_PROGRESS or RESOLVED,
\* VERIFY_IN_PROGRESS to PR_CREATION_IN_PROGRESS to RESOLVED, and FAILED from
\* an in-progress state only; nothing leaves RESOLVED or FAILED.
C23_StateGraph ==
    [][LET inProgress == {"RCA_IN_PROGRESS", "PATCH_IN_PROGRESS", "VERIFY_IN_PROGRESS",
                          "PR_CREATION_IN_PROGRESS"}
           edges == {<<"NONE", "OPEN">>,
                     <<"OPEN", "RCA_IN_PROGRESS">>,
                     <<"RCA_IN_PROGRESS", "PATCH_IN_PROGRESS">>,
                     <<"PATCH_IN_PROGRESS", "AWAITING_APPROVAL">>,
                     <<"PATCH_IN_PROGRESS", "VERIFY_IN_PROGRESS">>,
                     <<"AWAITING_APPROVAL", "VERIFY_IN_PROGRESS">>,
                     <<"AWAITING_APPROVAL", "RESOLVED">>,
                     <<"VERIFY_IN_PROGRESS", "PR_CREATION_IN_PROGRESS">>,
                     <<"PR_CREATION_IN_PROGRESS", "RESOLVED">>}
                    \cup (inProgress \X {"FAILED"})
       IN  \A i \in Ids :
               activeIncidents'[i] # activeIncidents[i] =>
                   <<activeIncidents[i], activeIncidents'[i]>> \in edges]_vars

\* a step in which a Pull Request is created for incident i
PrCreatedStep(i) == inv'[i].prCreated > inv[i].prCreated

\* C24: when a Pull Request has been created for an incident the stored
\* metadata carries the PR reference, the stored status is RESOLVED and a
\* RESOLVED event was broadcast, with or without the chat collaborator.
C24_PrResolves ==
    [][\A i \in Ids :
          PrCreatedStep(i) =>
              /\ db'[i].meta.prUrl
              /\ db'[i].status = "RESOLVED"
              /\ lastEmit'[i].status = "RESOLVED"]_vars

\* the executor invocations of incident i that have not returned
ExecutorsInFlight(i) ==
    (IF wf[i].pc \in {"rca", "patch", "loop_verify", "loop_patch", "pr"} THEN 1 ELSE 0)
    + Cardinality({k \in Slots : task[i][k].pc \in {"verify", "pr"}})

\* the PR executor of incident i's workflow runs after a Verify that succeeded
\* on the patch it is given
PrAfterVerifiedPatch(i) ==
    wf[i].pc = "pr" =>
        /\ wf[i].verified
        /\ wf[i].verifiedPatch # <<>>
        /\ wf[i].verifiedPatch[Len(wf[i].verifiedPatch)] = wf[i].currentPatchData

\* C25: at most one executor invocation of an incident is in flight at any
\* time, the executors of its workflow run in the order RCA, Patch, Verify, PR,
\* and the PR executor runs only after a Verify succeeded on the patch of the PR.
C25_SequentialExecutors ==
    \A i \in Ids :
        /\ ExecutorsInFlight(i) <= 1
        /\ wf[i].pc = "patch" =>
               agentRuns[i][Run("RCA", "COMPLETED")] + agentRuns[i][Run("RCA", "FAILED")] = 1
        /\ wf[i].pc = "loop_verify" => agentRuns[i][Run("Patch", "COMPLETED")] >= 1
        /\ PrAfterVerifiedPatch(i)

\* the number of AgentRun rows of incident i
AgentRunCount(i) ==
    LET cells == AgentNames \X RunStatuses
        RECURSIVE Sum(_)
        Sum(c) == IF c = {} THEN 0
                  ELSE LET x == CHOOSE y \in c : TRUE IN agentRuns[i][x] + Sum(c \ {x})
    IN  Sum(cells)

\* C26: no step takes an AgentRun row away or changes one (the number of rows
\* of every agent and status never goes down), and a retry of Patch or Verify
\* in the self-healing loop adds rows.
C26_AgentRunsAppendOnly ==
    [][\A i \in Ids :
          /\ \A x \in AgentNames \X RunStatuses : agentRuns'[i][x] >= agentRuns[i][x]
          /\ (wf[i].pc = "loop_patch" /\ wf'[i].pc = "loop_verify") =>
                 AgentRunCount(i)' >= AgentRunCount(i) + 2
          /\ (wf[i].pc = "loop_verify" /\ wf'[i].pc = "loop_patch") =>
                 AgentRunCount(i)' >= AgentRunCount(i) + 2]_vars

C26_Witness ==
    \E i \in Ids :
        /\ agentRuns[i][Run("Verify", "FAILED")] = 2
        /\ agentRuns[i][Run("Verify", "WORKING")] = 3
        /\ agentRuns[i][Run("Patch", "COMPLETED")] = 3
        /\ agentRuns[i][Run("Patch", "WORKING")] = 3

\* C27: no variable written during the workflow of one incident is written
\* during the workflow of another incident that is in flight at the same time:
\* the status field of an executor is not written for an incident while the
\* workflow of the incident it was last written for is still running.
C27_NoSharedMutableState ==
    [][\A a \in Executors :
          executors'[a] # executors[a] =>
              \/ executors[a].incident = 0
              \/ executors[a].incident = executors'[a].incident
              \/ ~Live(executors[a].incident)]_vars

\* C28: the repository access token is never part of an incident's stored
\* metadata and never part of a broadcast event.
C28_TokenNeverStoredOrBroadcast ==
    \A i \in Ids : db[i].meta.token # "raw" /\ lastEmit[i].token # "raw"

\* C29: writes go to the store first: an incident that is in the
\* active-incident cache, or was broadcast, has a row in the store, and the
\* cached status is the stored one.
C29_StoreFirst ==
    \A i \in Ids :
        /\ (activeIncidents[i] # "NONE" \/ lastEmit[i].status # "NONE") => db[i].exists
        /\ activeIncidents[i] # "NONE" => db[i].status = activeIncidents[i]

\* C30: failures are incident-scoped: no exception leaves handleIncident,
\* handleApproval, handleRejection or handleVerificationRequest, and a step
\* changes the stored row, the cached status and the AgentRuns of one incident
\* at most.
Touched(i) ==
    \/ db'[i] # db[i]
    \/ agentRuns'[i] # agentRuns[i]
    \/ activeIncidents'[i] # activeIncidents[i]

C30_FailuresIncidentScoped ==
    [][/\ \A i \in Ids, k \in Slots : task'[i][k].pc # "threw"
       /\ \A i, j \in Ids : (Touched(i) /\ Touched(j)) => i = j]_vars

\* C31: a submission is treated as a duplicate exactly when, at its lookup, the
\* store holds an incident with the same fingerprint and a status other than
\* RESOLVED (FAILED included); a duplicate is merged into such an incident and
\* starts no workflow, any other submission starts the workflow of a new
\* incident.
Unresolved(d, fp) == db[d].exists /\ db[d].fingerprint = fp /\ db[d].status # "RESOLVED"

LookedUp(r) == req[r].pc = "findFirst" /\ req'[r].pc = "checked"

Answered(r) == req[r].pc = "checked" /\ req'[r].pc = "done"

C31_DuplicateIffUnresolved ==
    [][\A r \in Ids :
          /\ LookedUp(r) =>
                IF \E d \in Ids : Unresolved(d, req[r].fingerprint)
                THEN req'[r].duplicate # 0 /\ Unresolved(req'[r].duplicate, req[r].fingerprint)
                ELSE req'[r].duplicate = 0
          /\ Answered(r) =>
                IF req[r].duplicate # 0
                THEN /\ req'[r].response = [incidentId |-> req[r].duplicate, duplicate |-> TRUE]
                     /\ db'[req[r].duplicate].occurrenceCount
                          = db[req[r].duplicate].occurrenceCount + 1
                     /\ UNCHANGED <<wf, agentRuns, activeIncidents>>
                ELSE /\ req'[r].response = [incidentId |-> r, duplicate |-> FALSE]
                     /\ wf[r].pc = "none" /\ wf'[r].pc = "create"]_vars

\* a submission was merged into an incident whose stored status is FAILED
C31_Witness ==
    \E r \in Ids :
        /\ req[r].pc = "done" /\ req[r].response.duplicate
        /\ db[req[r].response.incidentId].status = "FAILED"

\* C32: every executor invocation is bracketed by AgentRun rows: once the
\* workflow of an incident has ended, each executor has as many WORKING rows as
\* it has COMPLETED and FAILED rows together.
Bracketed(i, a) ==
    agentRuns[i][Run(a, "WORKING")]
        = agentRuns[i][Run(a, "COMPLETED")] + agentRuns[i][Run(a, "FAILED")]

C32_RunsBracketInvocations ==
    \A i \in Ids : wf[i].pc = "done" => \A a \in AgentNames : Bracketed(i, a)

\* C33: no incident is left stranded: when the workflow of an incident has
\* ended and no handler is working on it, its status is RESOLVED, FAILED or
\* AWAITING_APPROVAL.
Settled == {"RESOLVED", "FAILED", "AWAITING_APPROVAL"}

NoLiveWorkflow(i) ==
    /\ wf[i].pc = "done"
    /\ \A k \in Slots : task[i][k].pc \in {"idle", "done", "threw"}

C33_NoStrandedIncident ==
    \A i \in Ids : NoLiveWorkflow(i) => activeIncidents[i] \in Settled

\* C34: when a Patch regeneration of the self-healing loop has failed, the loop
\* has ended: the workflow has stopped with no Verify after the failed
\* regeneration and no PR invocation, and the incident's status is FAILED.
RepatchFailed(i) == wf[i].attempt >= 1 /\ wf[i].patchError # "none"

C34_RepatchFailureEndsLoop ==
    \A i \in Ids :
        RepatchFailed(i) =>
            /\ wf[i].pc = "done"
            /\ inv[i].verifyLoop = wf[i].attempt
            /\ inv[i].pr = 0
            /\ (activeIncidents[i] = "FAILED" \/ db[i].status = "FAILED")

\* C35: an incident whose stored status is RESOLVED has a PR reference or a
\* rejection annotation in its stored metadata.
C35_ResolvedHasReason ==
    \A i \in Ids : db[i].status = "RESOLVED" => (db[i].meta.prUrl \/ db[i].meta.rejectedBy)

\* C36: the active-incident cache agrees with the store on terminal outcomes:
\* when the operation that stores RESOLVED for an incident (a rejection, the
\* auto-fix path, the approve path) has finished, the cached status of the
\* incident is RESOLVED too.
StoredResolved(i) == db[i].status # "RESOLVED" /\ db'[i].status = "RESOLVED"

C36_CacheAgreesOnResolved ==
    [][\A i \in Ids : StoredResolved(i) => activeIncidents'[i] = "RESOLVED"]_vars

\* C37: a workflow runs only for incidents that exist in the store: an incident
\* for which an executor was invoked or an AgentRun was written has a row.
WorkflowStarted(i) == wf[i].pc \notin {"none", "create"}

C37_WorkflowOnlyForStored ==
    \A i \in Ids : (WorkflowStarted(i) \/ AgentRunCount(i) > 0) => db[i].exists

\* C38: fingerprints are project-scoped: two submissions with different project
\* identifiers never receive the same fingerprint, and a submission is never
\* merged into an incident of another project.
Submitted(r) == req[r].message # NoMessage

C39_WatcherStops ==
    /\ Cardinality(watcher.timers) <= 1
    /\ "IDLE" \notin watcher.periodic

====
